---- MODULE Spec2Model ----
(***************************************************************************)
(* Account rotation scheduler and session orchestration of the            *)
(* Xiaohongshu browser monitor.                                            *)
(*                                                                         *)
(*   xhs_account_manager.py  AccountManager: the account registry, its    *)
(*                           health bookkeeping and the two selection     *)
(*                           strategies                                    *)
(*   xhs_browser_monitor.py  BrowserController.ensure_logged_in and       *)
(*                           XiaohongshuBrowserMonitor.run, and the time  *)
(*                           window filter of search_keyword               *)
(*   xhs_anti_detection.py   FingerprintProfile.generate_random            *)
(*                                                                         *)
(* Time is a discrete clock.  One tick is 60 / TicksPerHour minutes; a    *)
(* last_used_at of 0 stands for the empty string (never used).            *)
(***************************************************************************)
EXTENDS Integers, Sequences, FiniteSets, TLC

\* ------------------------------------------------------------------ bounds

\* cap on total_searches for record_usage called from outside a run
MaxUses == 1
\* last value of the clock
MaxTime == 3
\* cap on consecutive_failures for update_account_status called from outside a run
MaxFail == 3
\* resolution of the clock: ticks per hour
TicksPerHour == 2
\* most items on a page of search results
MaxItems == 3

\* ------------------------------------------------------- program constants

ACTIVE == "active"
SUSPICIOUS == "suspicious"
LIMITED == "limited"
BANNED == "banned"
UNKNOWN == "unknown"

AccountStatus == {ACTIVE, SUSPICIOUS, LIMITED, BANNED, UNKNOWN}

\* Python's None
None == "None"

\* account ids as add_account formats them
AccountIds == {"acc_001", "acc_002"}

\* an id no account of the registry has
UnknownId == "acc_999"

\* error texts handed to update_account_status: the run's own text and the
\* text of a login timeout
LOGIN_FAILED == "login failed"
LOGIN_TIMEOUT == "Timeout 120000ms exceeded"
Errors == {LOGIN_FAILED, LOGIN_TIMEOUT}

\* consecutive failures from which get_account_for_search drops an account
FAILURE_LIMIT == 3
\* weights of the score of get_account_for_search
USE_WEIGHT == 10
FAILURE_WEIGHT == 50
STATUS_PENALTY == 100

\* len(config.keywords) of the run that main() starts
NumKeywords == 3

\* the rotation scenario: the total_searches of the two ACTIVE accounts
SCENARIO_FEW_USES == 5
SCENARIO_MANY_USES == 12

\* cooldown of get_account_for_search, and default of get_next_account: 1 hour
DefaultCooldown == 1 * TicksPerHour
MinutesPerTick == 60 \div TicksPerHour

\* cooldown_hours values handed to get_next_account, in ticks: half an hour, one hour
CooldownChoices == {1, DefaultCooldown}

VARIABLES
    accounts,           \* AccountManager.accounts: the dict, as the sequence of its values in insertion order
    accounts_file,      \* the records last written by _save_accounts
    now,                \* the clock datetime.now() reads
    last_call,          \* the last call of the registry's interface: its arguments and return value
    state_files,        \* the ids of the accounts whose saved login state exists
    pc,                 \* where XiaohongshuBrowserMonitor.run is
    keyword_index,      \* run's keyword_index, counted from 1
    account,            \* run's account: the id get_account_for_search returned
    current_account_id, \* BrowserController.current_account_id
    all_posts,          \* run's all_posts: each post is the index of its keyword
    all_comments,       \* run's all_comments, likewise
    stats,              \* XiaohongshuBrowserMonitor.stats
    result_files,       \* the documents save_results has written
    kw_log,             \* what the run reported for each keyword so far
    accounts_at_start,  \* the registry as it was when the run started
    salt_file,          \* the salt in EncryptionManager.salt_file, None while the file does not exist
    cipher,             \* EncryptionManager._cipher: the key of the Fernet object, or None
    master_password_set,\* AccountManager._master_password_set
    service_status,     \* XiaohongshuBrowserMonitorService.status
    stop_requested,     \* XiaohongshuBrowserMonitorService._stop_requested
    results,            \* XiaohongshuBrowserMonitorService.results
    gui_pc,             \* where the thread that calls start_monitoring and stop_monitoring is
    workers,            \* the threads start_monitoring has started: where each is, and its run's locals
    time_range,         \* XiaohongshuBrowserMonitor.time_range: the datetimes of its start and its end
    page_items,         \* the time texts of the items on the page of search results
    search_pc,          \* where search_keyword is
    found_posts,        \* search_keyword's posts: what _extract_search_results has built
    filtered,           \* the calls of _filter_posts_by_time so far: clock, argument and return value
    profile             \* AntiDetectionEngine.profile in a sequence, the empty sequence while it is None

regvars == <<accounts, accounts_file, now, last_call>>
runvars == <<state_files, pc, keyword_index, account, current_account_id, all_posts,
             all_comments, stats, result_files, kw_log, accounts_at_start>>
vaultvars == <<salt_file, cipher, master_password_set>>
servicevars == <<service_status, stop_requested, results, gui_pc, workers>>
monitorvars == <<time_range, page_items, search_pc, found_posts, filtered, profile>>
vars == <<regvars, runvars, vaultvars, servicevars, monitorvars>>

\* ------------------------------------------------------------ AccountConfig

AccountConfig(id, status, uses, failures, used_at, error) ==
    [account_id |-> id, status |-> status, total_searches |-> uses,
     consecutive_failures |-> failures, last_used_at |-> used_at, last_error |-> error]

\* AccountConfig.create: a new record
create(id) == AccountConfig(id, UNKNOWN, 0, 0, 0, "")

\* account_id in self.accounts
Has(accs, id) == \E i \in 1..Len(accs) : accs[i].account_id = id

\* self.accounts[account_id]
Get(accs, id) == accs[CHOOSE i \in 1..Len(accs) : accs[i].account_id = id]

Ids(accs) == {accs[i].account_id : i \in 1..Len(accs)}

\* ------------------------------------------------------------------ sorting

\* Python's comparison of two tuples of numbers
RECURSIVE TupleLess(_, _)
TupleLess(a, b) ==
    IF a = <<>> \/ b = <<>> THEN Len(a) < Len(b)
    ELSE IF Head(a) # Head(b) THEN Head(a) < Head(b)
    ELSE TupleLess(Tail(a), Tail(b))

\* x put into the sorted s behind every element that is not greater than it
RECURSIVE Insert(_, _)
Insert(x, s) ==
    IF s = <<>> THEN <<x>>
    ELSE IF TupleLess(x.key, Head(s).key) THEN <<x>> \o s
    ELSE <<Head(s)>> \o Insert(x, Tail(s))

\* list.sort(key=...): stable, ascending by key
RECURSIVE sort(_)
sort(s) ==
    IF s = <<>> THEN <<>>
    ELSE Insert(s[Len(s)], sort(SubSeq(s, 1, Len(s) - 1)))

\* ---------------------------------------------------------------- selection

\* cooldown_end = last_used + timedelta(hours=cooldown_hours)
cooldown_end(acc, cooldown) == acc.last_used_at + cooldown

\* the cooldown test with the condition dropped: no account is ever cooling
InCooldown_ignored(acc, t, respect_cooldown, cooldown) == FALSE

\* respect_cooldown and acc.last_used_at and now < cooldown_end
InCooldown(acc, t, respect_cooldown, cooldown) ==
    /\ respect_cooldown
    /\ acc.last_used_at # 0
    /\ t < cooldown_end(acc, cooldown)

\* the accounts the loop of get_next_account does not skip
NotBannedOrLimited(accs) ==
    SelectSeq(accs, LAMBDA acc : acc.status \notin {BANNED, LIMITED})

\* available_accounts sorted without regard to the status
available_accounts_any_status(accs, t, respect_cooldown, cooldown) ==
    LET kept == SelectSeq(NotBannedOrLimited(accs),
                          LAMBDA acc : ~InCooldown(acc, t, respect_cooldown, cooldown))
    IN  [i \in 1..Len(kept) |->
            [acc |-> kept[i], key |-> <<kept[i].total_searches, kept[i].last_used_at>>]]

\* available_accounts, with the sort key of each
available_accounts(accs, t, respect_cooldown, cooldown) ==
    LET kept == SelectSeq(NotBannedOrLimited(accs),
                          LAMBDA acc : ~InCooldown(acc, t, respect_cooldown, cooldown))
    IN  [i \in 1..Len(kept) |->
            [acc |-> kept[i],
             key |-> <<IF kept[i].status # ACTIVE THEN 1 ELSE 0,
                       kept[i].total_searches,
                       kept[i].last_used_at>>]]

\* cooling_accounts, with the cooldown end of each as the sort key
cooling_accounts(accs, t, respect_cooldown, cooldown) ==
    LET kept == SelectSeq(NotBannedOrLimited(accs),
                          LAMBDA acc : InCooldown(acc, t, respect_cooldown, cooldown))
    IN  [i \in 1..Len(kept) |->
            [acc |-> kept[i], key |-> <<cooldown_end(kept[i], cooldown)>>]]

\* AccountManager.get_next_account: the id of the account returned, or None
get_next_account(accs, t, respect_cooldown, cooldown) ==
    LET available == available_accounts(accs, t, respect_cooldown, cooldown)
        cooling == cooling_accounts(accs, t, respect_cooldown, cooldown)
    IN  IF accs = <<>> THEN None
        ELSE IF available # <<>> THEN sort(available)[1].acc.account_id
        ELSE IF cooling # <<>> THEN sort(cooling)[1].acc.account_id
        ELSE None

\* cooldown_remaining of get_account_for_search, in minutes
cooldown_remaining(acc, t) ==
    IF acc.last_used_at # 0 /\ t < cooldown_end(acc, DefaultCooldown)
    THEN (cooldown_end(acc, DefaultCooldown) - t) * MinutesPerTick
    ELSE 0

\* the score with the failure weight subtracted instead of added
score_failures_rewarded(acc, t) ==
    acc.total_searches * USE_WEIGHT
    - acc.consecutive_failures * FAILURE_WEIGHT
    + cooldown_remaining(acc, t)
    + (IF acc.status # ACTIVE THEN STATUS_PENALTY ELSE 0)

\* the score of get_account_for_search: lower is better
score(acc, t) ==
    acc.total_searches * USE_WEIGHT
    + acc.consecutive_failures * FAILURE_WEIGHT
    + cooldown_remaining(acc, t)
    + (IF acc.status # ACTIVE THEN STATUS_PENALTY ELSE 0)

\* the accounts the loop of get_account_for_search scores
IsCandidate(acc) ==
    /\ acc.status # BANNED
    /\ ~(acc.consecutive_failures >= FAILURE_LIMIT)

\* candidates, with the score of each as the sort key
candidates(accs, t) ==
    LET kept == SelectSeq(accs, IsCandidate)
    IN  [i \in 1..Len(kept) |-> [acc |-> kept[i], key |-> <<score(kept[i], t)>>]]

\* AccountManager.get_account_for_search: the id of the account returned, or None
get_account_for_search(accs, t) ==
    IF accs = <<>> THEN None
    ELSE IF candidates(accs, t) = <<>> THEN None
    ELSE sort(candidates(accs, t))[1].acc.account_id

\* --------------------------------------------------------- registry updates

\* accs with the record of id replaced by acc
Replace(accs, id, acc) ==
    [i \in 1..Len(accs) |-> IF accs[i].account_id = id THEN acc ELSE accs[i]]

\* update_account_status whose ACTIVE branch keeps the failure counter
with_status_counter_kept(acc, status, error) ==
    IF status = SUSPICIOUS
    THEN [acc EXCEPT !.status = status,
                     !.consecutive_failures = @ + 1,
                     !.last_error = error]
    ELSE [acc EXCEPT !.status = status]

\* the record after update_account_status
with_status(acc, status, error) ==
    IF status = SUSPICIOUS
    THEN [acc EXCEPT !.status = status,
                     !.consecutive_failures = @ + 1,
                     !.last_error = error]
    ELSE IF status = ACTIVE
    THEN [acc EXCEPT !.status = status,
                     !.consecutive_failures = 0,
                     !.last_error = ""]
    ELSE [acc EXCEPT !.status = status]

\* AccountManager.update_account_status: the registry afterwards
updated_status(accs, id, status, error) ==
    IF ~Has(accs, id) THEN accs
    ELSE Replace(accs, id, with_status(Get(accs, id), status, error))

\* AccountManager.record_usage: the registry afterwards
recorded_usage(accs, id, t) ==
    IF ~Has(accs, id) THEN accs
    ELSE Replace(accs, id, [Get(accs, id) EXCEPT !.last_used_at = t,
                                                  !.total_searches = @ + 1])

\* the fields of the dataclass AccountConfig that the model keeps
Fields == {"account_id", "status", "total_searches", "consecutive_failures",
           "last_used_at", "last_error", "password_encrypted"}

\* dataclasses.asdict of all attributes of the object, not of its fields only
asdict_every_attribute(acc) == acc

\* dataclasses.asdict: the fields of the dataclass, and no other attribute of
\* the object
asdict(acc) == [f \in DOMAIN acc \cap Fields |-> acc[f]]

\* _save_accounts: what it writes for the registry accs
save_accounts(accs) == [i \in 1..Len(accs) |-> asdict(accs[i])]

\* the store after a call that ends in _save_accounts unless it returned early
\* for an id the registry does not have
saved(accs, id, changed, file) == IF Has(accs, id) THEN save_accounts(changed) ELSE file

Call(op, id, status, error, respect_cooldown, cooldown, ret) ==
    [op |-> op, id |-> id, status |-> status, error |-> error,
     respect_cooldown |-> respect_cooldown, cooldown |-> cooldown, ret |-> ret]

NoCall == Call("", None, None, "", FALSE, 0, None)

\* ------------------------------------------------------- registry actions

update_account_status(id, status, error) ==
    /\ (Has(accounts, id) /\ status = SUSPICIOUS)
        => Get(accounts, id).consecutive_failures < MaxFail
    /\ accounts' = updated_status(accounts, id, status, error)
    /\ accounts_file' = saved(accounts, id, accounts', accounts_file)
    /\ last_call' = Call("update_account_status", id, status, error, FALSE, 0, None)
    /\ UNCHANGED <<monitorvars, now, runvars, vaultvars, servicevars>>

record_usage(id) ==
    /\ Has(accounts, id) => Get(accounts, id).total_searches < MaxUses
    /\ accounts' = recorded_usage(accounts, id, now)
    /\ accounts_file' = saved(accounts, id, accounts', accounts_file)
    /\ last_call' = Call("record_usage", id, None, "", FALSE, 0, None)
    /\ UNCHANGED <<monitorvars, now, runvars, vaultvars, servicevars>>

GetNextAccount(respect_cooldown, cooldown) ==
    /\ last_call' = Call("get_next_account", None, None, "", respect_cooldown, cooldown,
                         get_next_account(accounts, now, respect_cooldown, cooldown))
    /\ UNCHANGED <<monitorvars, accounts, accounts_file, now, runvars, vaultvars, servicevars>>

GetAccountForSearch ==
    /\ last_call' = Call("get_account_for_search", None, None, "", FALSE, 0,
                         get_account_for_search(accounts, now))
    /\ UNCHANGED <<monitorvars, accounts, accounts_file, now, runvars, vaultvars, servicevars>>

\* ------------------------------------------------------- EncryptionManager
\* Strings and bytes are pairs of a tag and a content, so that every
\* conversion is visible in the value it returns.

\* the master passwords one can type, and the passwords of accounts
MasterPasswords == {<<"str", "master-1">>, <<"str", "master-2">>}
Passwords == {<<"str", "password-1">>, <<"str", "password-2">>}

\* what os.urandom(16) gave when the salt file was created
Salt == <<"bytes", "salt">>

\* the ValueError that the vault raises
ValueError == <<"ValueError">>

\* None where a salt or a cipher would be
Unset == <<"None">>

\* str.encode()
encode(s) == IF s[1] = "decoded" THEN s[2] ELSE <<"utf-8", s>>

\* bytes.decode()
decode(b) == IF b[1] = "utf-8" THEN b[2] ELSE <<"decoded", b>>

urlsafe_b64encode(b) == <<"base64", b>>

urlsafe_b64decode(b) == b[2]

\* _derive_key: PBKDF2-HMAC-SHA256 of the password under the salt; passwords
\* or salts that differ give keys that differ
derive_key(salt, password) == <<"key", salt, encode(password)>>

\* Fernet(key).encrypt(data): a token that carries data, authenticated under key
fernet_encrypt(key, data) == <<"fernet", key, data>>

\* a Fernet that decrypts a token whatever key it was made under
fernet_accepts_any_key(key, token) == TRUE

\* Fernet(key).decrypt(token) raises InvalidToken unless the token was made
\* under key
fernet_accepts(key, token) == token[2] = key

\* EncryptionManager.encrypt with _cipher = Fernet(key)
encrypt(key, plaintext) ==
    IF key = Unset THEN ValueError
    ELSE decode(urlsafe_b64encode(fernet_encrypt(key, encode(plaintext))))

\* EncryptionManager.decrypt with _cipher = Fernet(key): the plaintext, or the
\* ValueError it raises
decrypt(key, ciphertext) ==
    IF key = Unset THEN ValueError
    ELSE LET token == urlsafe_b64decode(encode(ciphertext))
         IN  IF fernet_accepts(key, token) THEN decode(token[3]) ELSE ValueError

\* ----------------------------------------------------------- vault actions
\* AccountManager with its EncryptionManager: the master password, the
\* accounts' passwords, the account store and the saved login states.

\* a call of the vault's interface: its arguments, whether it raised, and what
\* it returned
VaultCall(op, id, arg, raised, ret) ==
    [op |-> op, id |-> id, arg |-> arg, raised |-> raised, ret |-> ret]

\* acc with the attribute name set to value
setattr(acc, name, value) ==
    [f \in DOMAIN acc \cup {name} |-> IF f = name THEN value ELSE acc[f]]

\* the account_id add_account makes for the n-th account
account_id(n) == <<"acc_001", "acc_002", "acc_003">>[n]

\* self.accounts[id] = acc
Put(accs, id, acc) == IF Has(accs, id) THEN Replace(accs, id, acc) ELSE Append(accs, acc)

\* del self.accounts[id]
Del(accs, id) == SelectSeq(accs, LAMBDA acc : acc.account_id # id)

\* _load_accounts: an AccountConfig for every record of the store
load_accounts(file) == [i \in 1..Len(file) |-> file[i]]

\* an add_account without the check of _master_password_set
add_account_open_to_all(password_set) == TRUE

\* the check add_account starts with
add_account_allowed(password_set) == password_set

\* a remove_account that leaves the state file
unlinked_nothing(files, id) == files

\* state_file.unlink() if it exists
unlinked(files, id) == files \ {id}

\* a new process: AccountManager.__init__; the files stay
NewAccountManager ==
    /\ accounts' = <<>>
    /\ cipher' = Unset
    /\ master_password_set' = FALSE
    /\ last_call' = NoCall
    /\ UNCHANGED <<monitorvars, accounts_file, now, salt_file, runvars, servicevars>>

\* setup_master_password(new_password) with `password` typed in; the store
\* may be unreadable, and then _load_accounts raises
setup_master_password(new_password, password, readable) ==
    /\ salt_file' = IF salt_file = Unset THEN Salt ELSE salt_file
    /\ cipher' = derive_key(salt_file', password)
    /\ IF new_password \/ salt_file = Unset
       THEN /\ master_password_set' = TRUE
            /\ last_call' = VaultCall("setup_master_password", None,
                                       [new_password |-> new_password, password |-> password], FALSE, password)
            /\ UNCHANGED accounts
       ELSE IF readable
       THEN /\ accounts' = load_accounts(accounts_file)
            /\ master_password_set' = TRUE
            /\ last_call' = VaultCall("setup_master_password", None,
                                       [new_password |-> new_password, password |-> password], FALSE, password)
       ELSE /\ last_call' = VaultCall("setup_master_password", None,
                                       [new_password |-> new_password, password |-> password], FALSE, <<"str", "">>)
            /\ UNCHANGED <<accounts, master_password_set>>
    /\ UNCHANGED <<monitorvars, accounts_file, now, runvars, servicevars>>

\* add_account(username, password, ...) on a registry of fewer than limit accounts
add_account_within(limit, password) ==
    /\ Len(accounts) < limit
    /\ LET id == account_id(Len(accounts) + 1)
           password_encrypted == encrypt(cipher, password)
       IN  IF ~add_account_allowed(master_password_set) \/ password_encrypted = ValueError
           THEN /\ last_call' = VaultCall("add_account", None, password, TRUE, ValueError)
                /\ UNCHANGED <<accounts, accounts_file>>
           ELSE /\ accounts' = Put(accounts, id,
                                   setattr(create(id), "password_encrypted", password_encrypted))
                /\ accounts_file' = save_accounts(accounts')
                /\ last_call' = VaultCall("add_account", id, password, FALSE, id)
    /\ UNCHANGED <<monitorvars, now, runvars, vaultvars, servicevars>>

add_account(password) == add_account_within(Cardinality(AccountIds), password)

list_accounts ==
    /\ last_call' = IF master_password_set
                    THEN VaultCall("list_accounts", None, None, FALSE, Ids(accounts))
                    ELSE VaultCall("list_accounts", None, None, TRUE, ValueError)
    /\ UNCHANGED <<monitorvars, accounts, accounts_file, now, runvars, vaultvars, servicevars>>

get_account(id) ==
    /\ IF ~master_password_set
       THEN /\ last_call' = VaultCall("get_account", id, None, TRUE, ValueError)
            /\ UNCHANGED accounts
       ELSE IF ~Has(accounts, id)
       THEN /\ last_call' = VaultCall("get_account", id, None, FALSE, None)
            /\ UNCHANGED accounts
       ELSE LET password == decrypt(cipher, Get(accounts, id).password_encrypted)
            IN  IF password = ValueError
                THEN /\ last_call' = VaultCall("get_account", id, None, TRUE, ValueError)
                     /\ UNCHANGED accounts
                ELSE /\ accounts' = Replace(accounts, id,
                                            setattr(Get(accounts, id), "password", password))
                     /\ last_call' = VaultCall("get_account", id, None, FALSE, id)
    /\ UNCHANGED <<monitorvars, accounts_file, now, runvars, vaultvars, servicevars>>

get_password(id) ==
    /\ IF ~master_password_set \/ ~Has(accounts, id)
       THEN last_call' = VaultCall("get_password", id, None, TRUE, ValueError)
       ELSE LET password == decrypt(cipher, Get(accounts, id).password_encrypted)
            IN  last_call' = VaultCall("get_password", id, None, password = ValueError, password)
    /\ UNCHANGED <<monitorvars, accounts, accounts_file, now, runvars, vaultvars, servicevars>>

remove_account(id) ==
    /\ IF Has(accounts, id)
       THEN /\ accounts' = Del(accounts, id)
            /\ accounts_file' = save_accounts(accounts')
            /\ state_files' = unlinked(state_files, id)
            /\ last_call' = VaultCall("remove_account", id, None, FALSE, TRUE)
       ELSE /\ last_call' = VaultCall("remove_account", id, None, FALSE, FALSE)
            /\ UNCHANGED <<accounts, accounts_file, state_files>>
    /\ UNCHANGED <<monitorvars, now, pc, keyword_index, account, current_account_id, all_posts,
                   all_comments, stats, result_files, kw_log, accounts_at_start,
                   vaultvars, servicevars>>

\* context.storage_state(path=state_file) after a login with account id
storage_state(id) ==
    /\ Has(accounts, id)
    /\ id \notin state_files
    /\ state_files' = state_files \cup {id}
    /\ last_call' = VaultCall("storage_state", id, None, FALSE, None)
    /\ UNCHANGED <<monitorvars, accounts, accounts_file, now, pc, keyword_index, account, current_account_id, all_posts,
                   all_comments, stats, result_files, kw_log, accounts_at_start,
                   vaultvars, servicevars>>

\* ------------------------------------------------------------ run actions
\* XiaohongshuBrowserMonitor.run with an account manager.

\* the results dict that run hands to save_results
Results == [posts |-> all_posts, comments |-> all_comments, stats |-> stats]

\* what search_keyword can return, as the numbers of posts and of comments:
\* nothing (also when it fails), a post without comments, a post with a comment
SearchOutcomes == {<<0, 0>>, <<1, 0>>, <<1, 1>>}

LogEntry(outcome) == [keyword |-> keyword_index, account |-> account, outcome |-> outcome]

\* run up to the loop: init_browser, which is outside the try block
RunStart ==
    /\ pc = "idle"
    /\ \E browser_opens \in BOOLEAN :
        IF browser_opens
        THEN /\ pc' = "select"
             /\ keyword_index' = 1
             /\ accounts_at_start' = accounts
        ELSE /\ pc' = "error"
             /\ UNCHANGED <<keyword_index, accounts_at_start>>
    /\ UNCHANGED <<monitorvars, regvars, vaultvars, servicevars, state_files, account, current_account_id, all_posts,
                   all_comments, stats, result_files, kw_log>>

\* the head of a keyword iteration: get_account_for_search, and the skip when
\* it returns None
SelectAccount ==
    /\ pc = "select"
    /\ account' = get_account_for_search(accounts, now)
    /\ IF account' = None
       THEN /\ kw_log' = Append(kw_log, [keyword |-> keyword_index, account |-> None,
                                         outcome |-> "skipped"])
            /\ pc' = "next_keyword"
       ELSE /\ pc' = "create_context"
            /\ UNCHANGED kw_log
    /\ UNCHANGED <<monitorvars, regvars, vaultvars, servicevars, state_files, keyword_index, current_account_id, all_posts,
                   all_comments, stats, result_files, accounts_at_start>>

\* controller.create_context(account.account_id) and context.new_page():
\* get_account decrypts the password and can raise before current_account_id
\* is set, the browser can fail to give a context or a page after it
CreateContext ==
    /\ pc = "create_context"
    /\ \E outcome \in {"ok", "decrypt_error", "context_error"} :
        /\ current_account_id' = IF outcome = "decrypt_error" THEN current_account_id
                                 ELSE account
        /\ pc' = IF outcome = "ok" THEN "ensure_logged_in" ELSE "except"
    /\ UNCHANGED <<monitorvars, regvars, vaultvars, servicevars, state_files, keyword_index, account, all_posts,
                   all_comments, stats, result_files, kw_log, accounts_at_start>>

\* an ensure_logged_in that works on the first account of the registry,
\* whichever account the context was made for
ensure_logged_in_first_account(accs, id, t, outcome) ==
    IF outcome = "session_valid" THEN updated_status(accs, accs[1].account_id, ACTIVE, "")
    ELSE IF outcome = "logged_in"
    THEN updated_status(recorded_usage(accs, accs[1].account_id, t), accs[1].account_id, ACTIVE, "")
    ELSE updated_status(accs, accs[1].account_id, SUSPICIOUS, LOGIN_TIMEOUT)

\* the registry after BrowserController.ensure_logged_in(page, auto_login=True)
\*   session_valid  the saved state is still logged in
\*   logged_in      the automatic or the manual login succeeded
\*   timeout        the wait for the manual login ran out
ensure_logged_in(accs, id, t, outcome) ==
    IF outcome = "session_valid" THEN updated_status(accs, id, ACTIVE, "")
    ELSE IF outcome = "logged_in"
    THEN updated_status(recorded_usage(accs, id, t), id, ACTIVE, "")
    ELSE updated_status(accs, id, SUSPICIOUS, LOGIN_TIMEOUT)

EnsureLoggedIn ==
    /\ pc = "ensure_logged_in"
    /\ \E outcome \in {"session_valid", "logged_in", "timeout"} :
        /\ outcome = "session_valid" => current_account_id \in state_files
        /\ accounts' = ensure_logged_in(accounts, current_account_id, now, outcome)
        /\ accounts_file' = saved(accounts, current_account_id, accounts', accounts_file)
        /\ state_files' = IF outcome = "logged_in"
                          THEN state_files \cup {current_account_id} ELSE state_files
        /\ pc' = IF outcome = "timeout" THEN "login_failed" ELSE "search"
    /\ UNCHANGED <<monitorvars, now, last_call, vaultvars, servicevars, keyword_index, account, current_account_id, all_posts,
                   all_comments, stats, result_files, kw_log, accounts_at_start>>

\* the login_success branch: search_keyword, the totals, record_usage
SearchKeyword ==
    /\ pc = "search"
    /\ \E found \in SearchOutcomes :
        /\ all_posts' = all_posts \o [i \in 1..found[1] |-> keyword_index]
        /\ all_comments' = all_comments \o [i \in 1..found[2] |-> keyword_index]
        /\ stats' = [keywords_processed |-> stats.keywords_processed + 1,
                     total_posts |-> stats.total_posts + found[1],
                     total_comments |-> stats.total_comments + found[2]]
    /\ accounts' = recorded_usage(accounts, account, now)
    /\ accounts_file' = saved(accounts, account, accounts', accounts_file)
    /\ kw_log' = Append(kw_log, LogEntry("processed"))
    /\ pc' = "next_keyword"
    /\ UNCHANGED <<monitorvars, now, last_call, vaultvars, servicevars, state_files, keyword_index, account, current_account_id,
                   result_files, accounts_at_start>>

\* a failed login that ends the run
login_failed_pc_aborts == "except"

\* where the branch of a failed login leaves the run: at the tail of the
\* iteration, from which the loop goes on
login_failed_pc == "next_keyword"

\* the registry after the branch of a failed login
login_failed_accounts(accs, id) == updated_status(accs, id, SUSPICIOUS, LOGIN_FAILED)

\* the else branch: the account is marked SUSPICIOUS
MarkLoginFailed ==
    /\ pc = "login_failed"
    /\ accounts' = login_failed_accounts(accounts, account)
    /\ accounts_file' = saved(accounts, account, accounts', accounts_file)
    /\ kw_log' = Append(kw_log, LogEntry("login_failed"))
    /\ pc' = login_failed_pc
    /\ UNCHANGED <<monitorvars, now, last_call, vaultvars, servicevars, state_files, keyword_index, account, current_account_id,
                   all_posts, all_comments, stats, result_files, accounts_at_start>>

\* the tail of a keyword iteration: the page is closed, the delay, the next
\* keyword or the end of the loop
NextKeyword ==
    /\ pc = "next_keyword"
    /\ IF keyword_index < NumKeywords
       THEN keyword_index' = keyword_index + 1 /\ pc' = "select"
       ELSE keyword_index' = keyword_index /\ pc' = "save"
    /\ UNCHANGED <<monitorvars, regvars, vaultvars, servicevars, state_files, account, current_account_id, all_posts,
                   all_comments, stats, result_files, kw_log, accounts_at_start>>

\* after the loop: save_results writes the document, or raises
SaveResults ==
    /\ pc = "save"
    /\ \E written \in BOOLEAN :
        IF written
        THEN result_files' = Append(result_files, Results) /\ pc' = "done"
        ELSE result_files' = result_files /\ pc' = "except"
    /\ UNCHANGED <<monitorvars, regvars, vaultvars, servicevars, state_files, keyword_index, account, current_account_id,
                   all_posts, all_comments, stats, kw_log, accounts_at_start>>

\* except Exception: what was collected is saved if there is any, and the
\* error is raised again
RunExcept ==
    /\ pc = "except"
    /\ IF all_posts # <<>> \/ all_comments # <<>>
       THEN \E written \in BOOLEAN :
                result_files' = IF written THEN Append(result_files, Results)
                                ELSE result_files
       ELSE result_files' = result_files
    /\ pc' = "error"
    /\ UNCHANGED <<monitorvars, regvars, vaultvars, servicevars, state_files, keyword_index, account, current_account_id,
                   all_posts, all_comments, stats, kw_log, accounts_at_start>>

\* the delay between two keywords: time passes
Tick ==
    /\ pc = "next_keyword"
    /\ now < MaxTime
    /\ now' = now + 1
    /\ UNCHANGED <<monitorvars, accounts, accounts_file, last_call, runvars, vaultvars, servicevars>>

\* ---------------------------------------------------------- service actions
\* XiaohongshuBrowserMonitorService: start_monitoring and stop_monitoring are
\* called from one thread, every accepted start_monitoring starts a thread that
\* runs _run_async_loop.  The monitor of the service has no account manager, so
\* its run takes the branch of the single manual login.  A step is what a
\* thread does up to its next access to status, _stop_requested or results.

\* config.keywords of the runs
Keywords == <<"keyword-1", "keyword-2">>

\* the threads that start_monitoring can start
Threads == {"thread-1", "thread-2"}

\* the statuses in which start_monitoring is accepted and stop_monitoring is not
Startable == {"idle", "completed", "error", "stopped"}

\* a thread that has just been started, with the locals of its run
NewWorker ==
    [pc |-> "start", keyword_index |-> 1, all_posts |-> <<>>, all_comments |-> <<>>,
     keywords_processed |-> 0, observed_stop |-> FALSE]

\* the document that the run of thread w hands to save_results
WorkerResults(w) ==
    [posts |-> workers[w].all_posts, comments |-> workers[w].all_comments, worker |-> w]

\* BrowserMonitorResult
BrowserMonitorResult(success, posts, comments) ==
    [success |-> success, posts |-> posts, comments |-> comments]

\* the end of an iteration of `for keyword in self.config.keywords`
NextIteration(worker) ==
    IF worker.keyword_index < Len(Keywords)
    THEN [worker EXCEPT !.keyword_index = @ + 1, !.pc = "loop"]
    ELSE [worker EXCEPT !.pc = "save"]

\* thread w goes to pc, nothing else of it changes
Goto(w, to) == workers' = [workers EXCEPT ![w].pc = to]

\* start_monitoring up to `self.status = INITIALIZING`
start_monitoring ==
    /\ gui_pc = "idle"
    /\ service_status \in Startable
    /\ Len(workers) < Cardinality(Threads)
    /\ service_status' = "initializing"
    /\ gui_pc' = "start_reset_flag"
    /\ UNCHANGED <<monitorvars, regvars, runvars, vaultvars, stop_requested, results, workers>>

\* start_monitoring: `self._stop_requested = False`
StartResetFlag ==
    /\ gui_pc = "start_reset_flag"
    /\ stop_requested' = FALSE
    /\ gui_pc' = "start_reset_results"
    /\ UNCHANGED <<monitorvars, regvars, runvars, vaultvars, service_status, results, workers>>

\* start_monitoring: `self.results = None`
StartResetResults ==
    /\ gui_pc = "start_reset_results"
    /\ results' = <<>>
    /\ gui_pc' = "start_thread"
    /\ UNCHANGED <<monitorvars, regvars, runvars, vaultvars, service_status, stop_requested, workers>>

\* start_monitoring: the thread is started
StartThread ==
    /\ gui_pc = "start_thread"
    /\ workers' = Append(workers, NewWorker)
    /\ gui_pc' = "idle"
    /\ UNCHANGED <<monitorvars, regvars, runvars, vaultvars, service_status, stop_requested, results>>

\* stop_monitoring up to `self._stop_requested = True`
stop_monitoring ==
    /\ gui_pc = "idle"
    /\ service_status \notin Startable
    /\ stop_requested' = TRUE
    /\ gui_pc' = "stop_set_status"
    /\ UNCHANGED <<monitorvars, regvars, runvars, vaultvars, service_status, results, workers>>

\* stop_monitoring: `self.status = STOPPED`
StopSetStatus ==
    /\ gui_pc = "stop_set_status"
    /\ service_status' = "stopped"
    /\ gui_pc' = "idle"
    /\ UNCHANGED <<monitorvars, regvars, runvars, vaultvars, stop_requested, results, workers>>

\* _execute_monitoring up to run's init_browser, which is outside run's try
WorkerStart(w) ==
    /\ workers[w].pc = "start"
    /\ \E browser_opens \in BOOLEAN :
        Goto(w, IF browser_opens THEN "context" ELSE "handle_error")
    /\ UNCHANGED <<monitorvars, regvars, runvars, vaultvars, service_status, stop_requested, results, gui_pc>>

\* run: create_context, new_page, ensure_logged_in(auto_login=False); a login
\* that fails does not stop the run
WorkerContext(w) ==
    /\ workers[w].pc = "context"
    /\ \E created \in BOOLEAN : Goto(w, IF created THEN "loop" ELSE "except")
    /\ UNCHANGED <<monitorvars, regvars, runvars, vaultvars, service_status, stop_requested, results, gui_pc>>

\* wrapped_search up to the test of _stop_requested: when it is set, [] is
\* returned, the unpacking into posts and comments raises, and the except of
\* the iteration goes on to the next keyword
WrappedSearch(w) ==
    /\ workers[w].pc = "loop"
    /\ workers' = [workers EXCEPT ![w] =
                    IF stop_requested
                    THEN NextIteration([@ EXCEPT !.observed_stop = TRUE])
                    ELSE [@ EXCEPT !.pc = "set_searching"]]
    /\ UNCHANGED <<monitorvars, regvars, runvars, vaultvars, service_status, stop_requested, results, gui_pc>>

\* wrapped_search: `self.status = SEARCHING`
SetSearching(w) ==
    /\ workers[w].pc = "set_searching"
    /\ service_status' = "searching"
    /\ Goto(w, "search")
    /\ UNCHANGED <<monitorvars, regvars, runvars, vaultvars, stop_requested, results, gui_pc>>

\* original_search and the rest of the iteration
OriginalSearch(w) ==
    /\ workers[w].pc = "search"
    /\ \E found \in SearchOutcomes :
        workers' = [workers EXCEPT ![w] =
            NextIteration([@ EXCEPT
                !.all_posts = @ \o [i \in 1..found[1] |-> workers[w].keyword_index],
                !.all_comments = @ \o [i \in 1..found[2] |-> workers[w].keyword_index],
                !.keywords_processed = @ + 1])]
    /\ UNCHANGED <<monitorvars, regvars, runvars, vaultvars, service_status, stop_requested, results, gui_pc>>

\* run after the loop: save_results, then the return
WorkerSave(w) ==
    /\ workers[w].pc = "save"
    /\ \E written \in BOOLEAN :
        /\ result_files' = IF written THEN Append(result_files, WorkerResults(w))
                           ELSE result_files
        /\ Goto(w, IF written THEN "returned" ELSE "except")
    /\ UNCHANGED <<monitorvars, regvars, state_files, pc, keyword_index, account, current_account_id,
                   all_posts, all_comments, stats, kw_log, accounts_at_start, vaultvars,
                   service_status, stop_requested, results, gui_pc>>

\* run: except Exception; what was collected is saved if there is any, and the
\* error is raised again into _execute_monitoring
WorkerExcept(w) ==
    /\ workers[w].pc = "except"
    /\ IF workers[w].all_posts # <<>> \/ workers[w].all_comments # <<>>
       THEN \E written \in BOOLEAN :
                result_files' = IF written THEN Append(result_files, WorkerResults(w))
                                ELSE result_files
       ELSE result_files' = result_files
    /\ Goto(w, "handle_error")
    /\ UNCHANGED <<monitorvars, regvars, state_files, pc, keyword_index, account, current_account_id,
                   all_posts, all_comments, stats, kw_log, accounts_at_start, vaultvars,
                   service_status, stop_requested, results, gui_pc>>

\* _execute_monitoring after run: `if self._stop_requested: return`
AfterRun(w) ==
    /\ workers[w].pc = "returned"
    /\ Goto(w, IF stop_requested THEN "finished" ELSE "set_saving")
    /\ UNCHANGED <<monitorvars, regvars, runvars, vaultvars, service_status, stop_requested, results, gui_pc>>

\* _execute_monitoring: `self.status = SAVING`
SetSaving(w) ==
    /\ workers[w].pc = "set_saving"
    /\ service_status' = "saving"
    /\ Goto(w, "set_results")
    /\ UNCHANGED <<monitorvars, regvars, runvars, vaultvars, stop_requested, results, gui_pc>>

\* _execute_monitoring: `self.results = BrowserMonitorResult(success=True, ...)`
SetResults(w) ==
    /\ workers[w].pc = "set_results"
    /\ results' = <<BrowserMonitorResult(TRUE, workers[w].all_posts, workers[w].all_comments)>>
    /\ Goto(w, "set_completed")
    /\ UNCHANGED <<monitorvars, regvars, runvars, vaultvars, service_status, stop_requested, gui_pc>>

\* _execute_monitoring: `self.status = COMPLETED`
SetCompleted(w) ==
    /\ workers[w].pc = "set_completed"
    /\ service_status' = "completed"
    /\ Goto(w, "finished")
    /\ UNCHANGED <<monitorvars, regvars, runvars, vaultvars, stop_requested, results, gui_pc>>

\* _handle_error: `self.status = ERROR`
HandleErrorStatus(w) ==
    /\ workers[w].pc = "handle_error"
    /\ service_status' = "error"
    /\ Goto(w, "handle_error_results")
    /\ UNCHANGED <<monitorvars, regvars, runvars, vaultvars, stop_requested, results, gui_pc>>

\* _handle_error: `self.results = BrowserMonitorResult(success=False, posts=[], ...)`
HandleErrorResults(w) ==
    /\ workers[w].pc = "handle_error_results"
    /\ results' = <<BrowserMonitorResult(FALSE, <<>>, <<>>)>>
    /\ Goto(w, "finished")
    /\ UNCHANGED <<monitorvars, regvars, runvars, vaultvars, service_status, stop_requested, gui_pc>>

\* ------------------------------------------------------------ initial states

NoStats == [keywords_processed |-> 0, total_posts |-> 0, total_comments |-> 0]

\* no run has started
RunIdle ==
    /\ state_files = {}
    /\ pc = "idle"
    /\ keyword_index = 0
    /\ account = None
    /\ current_account_id = None
    /\ all_posts = <<>>
    /\ all_comments = <<>>
    /\ stats = NoStats
    /\ result_files = <<>>
    /\ kw_log = <<>>
    /\ accounts_at_start = <<>>

\* the vault unlocked by setup_master_password
VaultOpen ==
    /\ salt_file = Salt
    /\ cipher = derive_key(Salt, <<"str", "master-1">>)
    /\ master_password_set = TRUE

\* a first start: no salt, nothing unlocked
VaultNew ==
    /\ salt_file = Unset
    /\ cipher = Unset
    /\ master_password_set = FALSE

\* XiaohongshuBrowserMonitorService.__init__
ServiceIdle ==
    /\ service_status = "idle"
    /\ stop_requested = FALSE
    /\ results = <<>>
    /\ gui_pc = "idle"
    /\ workers = <<>>

\* no monitor has been made: nothing searched, no fingerprint drawn
MonitorIdle ==
    /\ time_range = <<0, 0>>
    /\ page_items = <<>>
    /\ search_pc = "idle"
    /\ found_posts = <<>>
    /\ filtered = <<>>
    /\ profile = <<>>

\* status, consecutive_failures and last_error as update_account_status leaves
\* them: ACTIVE clears the counter, SUSPICIOUS counts, any other status keeps it
HealthStates ==
    {<<ACTIVE, 0, "">>}
    \cup {<<SUSPICIOUS, f, LOGIN_FAILED>> : f \in 1..MaxFail}
    \cup {<<s, f, IF f = 0 THEN "" ELSE LOGIN_FAILED>> :
            s \in {LIMITED, BANNED, UNKNOWN}, f \in 0..MaxFail}

\* total_searches and last_used_at as record_usage leaves them at time t
UsageStates(t) == {<<0, 0>>} \cup {<<u, at>> : u \in 1..MaxUses, at \in 1..t}

\* the records of account id that a store written before time t can hold
StoredAccounts(id, t) ==
    {AccountConfig(id, h[1], u[1], h[2], u[2], h[3]) : h \in HealthStates, u \in UsageStates(t)}

\* the registries _load_accounts can build at time t
StoredRegistries(t) ==
    {<<>>}
    \cup {<<a>> : a \in StoredAccounts("acc_001", t)}
    \cup {<<a, b>> : a \in StoredAccounts("acc_001", t), b \in StoredAccounts("acc_002", t)}

\* ------------------------------------------------------------ specification
\* Spec: the two selection strategies applied to every stored registry at
\* every clock value.

Init ==
    /\ now \in 1..MaxTime
    /\ accounts \in StoredRegistries(now)
    /\ accounts_file = accounts
    /\ last_call = NoCall
    /\ RunIdle
    /\ VaultOpen
    /\ ServiceIdle
    /\ MonitorIdle

Next ==
    \/ \E respect_cooldown \in BOOLEAN, cooldown \in CooldownChoices :
            GetNextAccount(respect_cooldown, cooldown)
    \/ GetAccountForSearch

Spec == Init /\ [][Next]_vars

\* SpecReg: sequences of registry calls on a registry of new accounts.

InitReg ==
    /\ now = 1
    /\ accounts \in {<<>>, <<create("acc_001")>>, <<create("acc_001"), create("acc_002")>>}
    /\ accounts_file = accounts
    /\ last_call = NoCall
    /\ RunIdle
    /\ VaultOpen
    /\ ServiceIdle
    /\ MonitorIdle

NextReg ==
    \/ \E id \in AccountIds \cup {UnknownId}, status \in AccountStatus, error \in Errors :
            update_account_status(id, status, error)
    \/ \E id \in AccountIds \cup {UnknownId} : record_usage(id)
    \/ \E respect_cooldown \in BOOLEAN, cooldown \in CooldownChoices :
            GetNextAccount(respect_cooldown, cooldown)
    \/ GetAccountForSearch

SpecReg == InitReg /\ [][NextReg]_vars
\* SpecScenario: the rotation scenario.  Five accounts: two ACTIVE ones without
\* failures, used 5 and 12 times and out of their cooldown, and three that are
\* BANNED or LIMITED; failures are recorded on the account used 5 times.

ScenarioExcluded(id, t) ==
    {AccountConfig(id, s, u[1], 0, u[2], "") : s \in {BANNED, LIMITED}, u \in UsageStates(t)}

InitScenario ==
    /\ now = 1 + DefaultCooldown
    /\ \E c \in ScenarioExcluded("acc_003", now), d \in ScenarioExcluded("acc_004", now),
          e \in ScenarioExcluded("acc_005", now) :
            accounts = <<AccountConfig("acc_001", ACTIVE, SCENARIO_FEW_USES, 0, 1, ""),
                         AccountConfig("acc_002", ACTIVE, SCENARIO_MANY_USES, 0, 1, ""),
                         c, d, e>>
    /\ accounts_file = accounts
    /\ last_call = NoCall
    /\ RunIdle
    /\ VaultOpen
    /\ ServiceIdle
    /\ MonitorIdle

NextScenario ==
    \/ \E error \in Errors : update_account_status("acc_001", SUSPICIOUS, error)
    \/ GetAccountForSearch

SpecScenario == InitScenario /\ [][NextScenario]_vars
\* SpecRun: one run over NumKeywords keywords with a registry loaded from a
\* store of accounts that have not been used yet.

\* the records of account id in such a store: a counter above zero comes with
\* SUSPICIOUS, as update_account_status leaves it
LoadedAccounts(id) ==
    {AccountConfig(id, s, 0, 0, 0, "") : s \in {ACTIVE, UNKNOWN, LIMITED, BANNED}}
    \cup {AccountConfig(id, SUSPICIOUS, 0, f, 0, LOGIN_FAILED) : f \in 1..MaxFail}

InitRun ==
    /\ now = 1
    /\ accounts \in
        {<<>>}
        \cup {<<a>> : a \in LoadedAccounts("acc_001")}
        \cup {<<a, b>> : a \in LoadedAccounts("acc_001"), b \in LoadedAccounts("acc_002")}
    /\ accounts_file = accounts
    /\ last_call = NoCall
    /\ RunIdle
    /\ VaultOpen
    /\ ServiceIdle
    /\ MonitorIdle

NextRun ==
    \/ RunStart
    \/ SelectAccount
    \/ CreateContext
    \/ EnsureLoggedIn
    \/ SearchKeyword
    \/ MarkLoginFailed
    \/ NextKeyword
    \/ SaveResults
    \/ RunExcept
    \/ Tick

SpecRun == InitRun /\ [][NextRun]_vars
\* SpecVault: the vault from its first start, over restarts of the program.

InitVault ==
    /\ now = 1
    /\ accounts = <<>>
    /\ accounts_file = <<>>
    /\ last_call = NoCall
    /\ RunIdle
    /\ VaultNew
    /\ ServiceIdle
    /\ MonitorIdle

NextVault ==
    \/ NewAccountManager
    \/ \E password \in MasterPasswords : setup_master_password(TRUE, password, TRUE)
    \/ \E password \in MasterPasswords, readable \in BOOLEAN :
            setup_master_password(FALSE, password, readable)
    \/ \E password \in Passwords : add_account(password)
    \/ list_accounts
    \/ \E id \in AccountIds \cup {UnknownId} : get_account(id)
    \/ \E id \in AccountIds : get_password(id)
    \/ \E id \in AccountIds \cup {UnknownId} : remove_account(id)
    \/ \E id \in AccountIds : storage_state(id)
    \/ record_usage("acc_001")
    \/ update_account_status("acc_001", ACTIVE, "")

SpecVault == InitVault /\ [][NextVault]_vars
\* SpecService: the service, its calling thread and the threads it starts.

InitService ==
    /\ now = 1
    /\ accounts = <<>>
    /\ accounts_file = <<>>
    /\ last_call = NoCall
    /\ RunIdle
    /\ VaultNew
    /\ ServiceIdle
    /\ MonitorIdle

NextService ==
    \/ start_monitoring
    \/ StartResetFlag
    \/ StartResetResults
    \/ StartThread
    \/ stop_monitoring
    \/ StopSetStatus
    \/ \E w \in 1..Len(workers) :
        \/ WorkerStart(w)
        \/ WorkerContext(w)
        \/ WrappedSearch(w)
        \/ SetSearching(w)
        \/ OriginalSearch(w)
        \/ WorkerSave(w)
        \/ WorkerExcept(w)
        \/ AfterRun(w)
        \/ SetSaving(w)
        \/ SetResults(w)
        \/ SetCompleted(w)
        \/ HandleErrorStatus(w)
        \/ HandleErrorResults(w)

SpecService == InitService /\ [][NextService]_vars

\* ------------------------------------------------------ time window filter
\* XiaohongshuBrowserMonitor: _calculate_time_range, _extract_search_results,
\* _parse_timestamp and _filter_posts_by_time.  A datetime is a number of
\* minutes.  A time text is the sequence of its parts, so that `part in text`
\* and text.replace(part, "") are what they are on the string.

\* timedelta(hours=1) and timedelta(days=1), in minutes
HOUR == 60
DAY == 24 * HOUR

\* the datetime of clock value 0
Epoch == 4 * DAY

\* datetime.now() at clock value t
datetime_now(t) == Epoch + t * MinutesPerTick

\* int(dt.timestamp() * 1000): milliseconds
timestamp(dt) == dt * 60 * 1000

\* int() on the strings it converts; on any other string it raises
int == ("1" :> 1) @@ ("2" :> 2) @@ ("30" :> 30)

\* the time texts of the items on a page: none, relative ones, one whose
\* number int() does not convert, a date before every window (the name of the
\* format and the number of the day stand for the date), and free text
TimestampTexts ==
    {<<>>, <<"just now">>, <<"30", "minutes ago">>, <<"1", "hours ago">>, <<"2", "days ago">>,
     <<"a few", "days ago">>, <<"yesterday">>, <<"the day before yesterday">>,
     <<"%Y-%m-%d", "1">>, <<"text">>}

\* config.monitor_period: ONE_DAY and THREE_DAYS, as their number of days
MonitorPeriod == {1, 3}

\* _calculate_time_range at clock value t
calculate_time_range(t, period) == <<datetime_now(t) - period * DAY, datetime_now(t)>>

\* `part in text`
contains(text, part) == \E i \in 1..Len(text) : text[i] = part

\* the branch of a relative time: int() of text.replace(part, ""), and 0 when
\* int() raises
relative(text, part, unit, t) ==
    LET rest == SelectSeq(text, LAMBDA x : x # part)
    IN  IF Len(rest) = 1 /\ rest[1] \in DOMAIN int
        THEN timestamp(datetime_now(t) - int[rest[1]] * unit)
        ELSE 0

\* datetime.strptime over the date_formats: the datetime in a sequence, or the
\* empty sequence when no format fits
strptime(text) ==
    IF Len(text) = 2 /\ text[1] = "%Y-%m-%d" /\ text[2] \in DOMAIN int
    THEN <<int[text[2]] * DAY>>
    ELSE <<>>

\* _parse_timestamp at clock value t; the parts it looks for are those of
\* "just now", "N minutes ago", "N hours ago", "N days ago", "yesterday" and
\* "the day before yesterday"
parse_timestamp(text, t) ==
    IF text = <<>> THEN 0
    ELSE IF contains(text, "just now") THEN timestamp(datetime_now(t))
    ELSE IF contains(text, "minutes ago") THEN relative(text, "minutes ago", 1, t)
    ELSE IF contains(text, "hours ago") THEN relative(text, "hours ago", HOUR, t)
    ELSE IF contains(text, "days ago") THEN relative(text, "days ago", DAY, t)
    ELSE IF contains(text, "yesterday") THEN timestamp(datetime_now(t) - DAY)
    ELSE IF contains(text, "the day before yesterday") THEN timestamp(datetime_now(t) - 2 * DAY)
    ELSE IF strptime(text) # <<>> THEN timestamp(strptime(text)[1])
    ELSE 0

\* post_data of _extract_search_results for the idx-th item of the page
post_data(idx, text, t) ==
    [id |-> idx, timestamp |-> text, timestamp_unix |-> parse_timestamp(text, t)]

\* post_timestamp of _filter_posts_by_time: the post's timestamp_unix, and the
\* parsed text when that is 0 and there is a text
post_timestamp(post, t) ==
    IF post.timestamp_unix = 0 /\ post.timestamp # <<>>
    THEN parse_timestamp(post.timestamp, t)
    ELSE post.timestamp_unix

\* a filter that drops the posts without a time
kept_in_window_only(post, range, t) ==
    timestamp(range[1]) <= post_timestamp(post, t) /\ post_timestamp(post, t) <= timestamp(range[2])

\* the if and the elif of _filter_posts_by_time
kept(post, range, t) ==
    \/ timestamp(range[1]) <= post_timestamp(post, t) /\ post_timestamp(post, t) <= timestamp(range[2])
    \/ post_timestamp(post, t) = 0

\* a filter that puts each post it keeps in front of the others
appended_in_front(list, post) == <<post>> \o list

\* filtered.append(post)
appended(list, post) == Append(list, post)

\* _filter_posts_by_time at clock value t: the loop over the posts, here from
\* the last one back
RECURSIVE filter_posts_by_time(_, _, _)
filter_posts_by_time(list, range, t) ==
    IF list = <<>> THEN <<>>
    ELSE LET before == filter_posts_by_time(SubSeq(list, 1, Len(list) - 1), range, t)
             post == list[Len(list)]
         IN  IF kept(post, range, t) THEN appended(before, post) ELSE before

\* XiaohongshuBrowserMonitor.__init__: the time range is fixed
NewMonitor ==
    /\ search_pc = "idle"
    /\ \E period \in MonitorPeriod : time_range' = calculate_time_range(now, period)
    /\ search_pc' = "extract"
    /\ UNCHANGED <<regvars, runvars, vaultvars, servicevars, page_items, found_posts, filtered, profile>>

\* search_keyword: posts = _extract_search_results(page, keyword)
ExtractSearchResults ==
    /\ search_pc = "extract"
    /\ found_posts' = [idx \in 1..Len(page_items) |-> post_data(idx, page_items[idx], now)]
    /\ search_pc' = "filter"
    /\ UNCHANGED <<regvars, runvars, vaultvars, servicevars, time_range, page_items, filtered, profile>>

\* search_keyword: filtered_posts = _filter_posts_by_time(posts)
FilterPosts ==
    /\ search_pc = "filter"
    /\ filtered' = <<[at |-> now, posts |-> found_posts,
                      ret |-> filter_posts_by_time(found_posts, time_range, now)]>>
    /\ search_pc' = "filtered"
    /\ UNCHANGED <<regvars, runvars, vaultvars, servicevars, time_range, page_items, found_posts, profile>>

\* _filter_posts_by_time applied to what it returned
FilterAgain ==
    /\ search_pc = "filtered"
    /\ filtered' = Append(filtered, [at |-> now, posts |-> filtered[1].ret,
                                     ret |-> filter_posts_by_time(filtered[1].ret, time_range, now)])
    /\ search_pc' = "done"
    /\ UNCHANGED <<regvars, runvars, vaultvars, servicevars, time_range, page_items, found_posts, profile>>

\* time passes while a search is under way
SearchTick ==
    /\ search_pc \in {"extract", "filter", "filtered"}
    /\ now < MaxTime
    /\ now' = now + 1
    /\ UNCHANGED <<accounts, accounts_file, last_call, runvars, vaultvars, servicevars, monitorvars>>

\* SpecFilter: a monitor is made, and one search extracts the posts of a page
\* of up to MaxItems items and filters them.

InitFilter ==
    /\ now = 0
    /\ accounts = <<>>
    /\ accounts_file = <<>>
    /\ last_call = NoCall
    /\ RunIdle
    /\ VaultNew
    /\ ServiceIdle
    /\ time_range = <<0, 0>>
    /\ page_items \in UNION {[1..n -> TimestampTexts] : n \in 0..MaxItems}
    /\ search_pc = "idle"
    /\ found_posts = <<>>
    /\ filtered = <<>>
    /\ profile = <<>>

NextFilter ==
    \/ NewMonitor
    \/ ExtractSearchResults
    \/ FilterPosts
    \/ FilterAgain
    \/ SearchTick

SpecFilter == InitFilter /\ [][NextFilter]_vars

\* SpecPool: a pool of up to three accounts that are added, used and removed
\* in an unlocked vault, and the scored selection over it.

InitPool ==
    /\ now = 1
    /\ accounts = <<>>
    /\ accounts_file = <<>>
    /\ last_call = NoCall
    /\ RunIdle
    /\ VaultOpen
    /\ ServiceIdle
    /\ MonitorIdle

NextPool ==
    \/ add_account_within(3, <<"str", "password-1">>)
    \/ \E n \in 1..3 : remove_account(account_id(n))
    \/ \E n \in 1..3 : record_usage(account_id(n))
    \/ GetAccountForSearch

SpecPool == InitPool /\ [][NextPool]_vars

\* ------------------------------------------------------ browser fingerprint
\* xhs_anti_detection.py: the pools and FingerprintProfile.generate_random.  A
\* user agent is its system part, split at the semicolons, and its products
\* after it, each a name and a version; "Edg/" in ua and "Firefox" in ua are
\* the tests for a product of that name.

USER_AGENTS ==
    <<[system |-> <<"Windows NT 10.0", "Win64", "x64">>,
       products |-> <<<<"AppleWebKit", "537.36">>, <<"Chrome", "131.0.0.0">>, <<"Safari", "537.36">>>>],
      [system |-> <<"Windows NT 10.0", "Win64", "x64">>,
       products |-> <<<<"AppleWebKit", "537.36">>, <<"Chrome", "130.0.0.0">>, <<"Safari", "537.36">>>>],
      [system |-> <<"Windows NT 10.0", "Win64", "x64">>,
       products |-> <<<<"AppleWebKit", "537.36">>, <<"Chrome", "129.0.0.0">>, <<"Safari", "537.36">>>>],
      [system |-> <<"Macintosh", "Intel Mac OS X 10_15_7">>,
       products |-> <<<<"AppleWebKit", "537.36">>, <<"Chrome", "131.0.0.0">>, <<"Safari", "537.36">>>>],
      [system |-> <<"Macintosh", "Intel Mac OS X 10_15_7">>,
       products |-> <<<<"AppleWebKit", "537.36">>, <<"Chrome", "130.0.0.0">>, <<"Safari", "537.36">>>>],
      [system |-> <<"X11", "Linux x86_64">>,
       products |-> <<<<"AppleWebKit", "537.36">>, <<"Chrome", "131.0.0.0">>, <<"Safari", "537.36">>>>],
      [system |-> <<"Windows NT 10.0", "Win64", "x64">>,
       products |-> <<<<"AppleWebKit", "537.36">>, <<"Chrome", "131.0.0.0">>, <<"Safari", "537.36">>,
                      <<"Edg", "131.0.0.0">>>>],
      [system |-> <<"Windows NT 10.0", "Win64", "x64", "rv:133.0">>,
       products |-> <<<<"Gecko", "20100101">>, <<"Firefox", "133.0">>>>],
      [system |-> <<"Windows NT 10.0", "Win64", "x64", "rv:132.0">>,
       products |-> <<<<"Gecko", "20100101">>, <<"Firefox", "132.0">>>>]>>

\* the screen of each device profile; pixel_ratio in hundredths
DEVICE_PROFILES ==
    <<[screen_width |-> 1920, screen_height |-> 1080, pixel_ratio |-> 100,
       hardware_concurrency |-> 8, device_memory |-> 8],
      [screen_width |-> 2560, screen_height |-> 1440, pixel_ratio |-> 100,
       hardware_concurrency |-> 16, device_memory |-> 16],
      [screen_width |-> 1366, screen_height |-> 768, pixel_ratio |-> 100,
       hardware_concurrency |-> 4, device_memory |-> 4],
      [screen_width |-> 1536, screen_height |-> 864, pixel_ratio |-> 125,
       hardware_concurrency |-> 8, device_memory |-> 8]>>

LOCALES == <<"zh-CN,zh;q=0.9,en;q=0.8", "zh-CN,zh;q=0.9", "zh-CN,zh;q=0.9,en-US;q=0.8">>

TIMEZONES == <<"Asia/Shanghai", "Asia/Chongqing", "Asia/Hong_Kong", "Asia/Taipei">>

\* the headers of the template that generate_random touches, and
\* accept-language; sec-ch-ua is the sequence of its brands, each with its
\* version
DEFAULT_HEADERS ==
    ("accept" :> "text/html,application/xhtml+xml,application/xml;q=0.9,image/avif,image/webp,image/apng,*/*;q=0.8")
    @@ ("accept-language" :> "zh-CN,zh;q=0.9,en;q=0.8")
    @@ ("accept-encoding" :> "gzip, deflate, br, zstd")
    @@ ("sec-ch-ua" :> <<<<"Chromium", "131">>, <<"Not_A Brand", "24">>>>)
    @@ ("sec-ch-ua-mobile" :> "?0")
    @@ ("sec-ch-ua-platform" :> "Windows")

\* FingerprintProfile.generate_random, with what random.choice drew
generate_random(ua, device, locale, timezone) ==
    LET has(name) == \E i \in 1..Len(ua.products) : ua.products[i][1] = name
        headers ==
            IF has("Edg")
            THEN [DEFAULT_HEADERS EXCEPT !["sec-ch-ua"] =
                    <<<<"Microsoft Edge", "131">>, <<"Chromium", "131">>, <<"Not_A Brand", "24">>>>]
            ELSE IF has("Firefox")
            THEN [h \in DOMAIN DEFAULT_HEADERS \ {"sec-ch-ua", "sec-ch-ua-mobile", "sec-ch-ua-platform"} |->
                    IF h = "accept" THEN "text/html,application/xhtml+xml,application/xml;q=0.9,*/*;q=0.8"
                    ELSE IF h = "accept-encoding" THEN "gzip, deflate, br"
                    ELSE DEFAULT_HEADERS[h]]
            ELSE DEFAULT_HEADERS
    IN  [user_agent |-> ua, device |-> device, locale |-> locale, timezone |-> timezone,
         headers |-> headers]

\* AntiDetectionEngine.generate_fingerprint, as create_context calls it
generate_fingerprint ==
    /\ \E u \in 1..Len(USER_AGENTS), d \in 1..Len(DEVICE_PROFILES),
          l \in 1..Len(LOCALES), z \in 1..Len(TIMEZONES) :
            profile' = <<generate_random(USER_AGENTS[u], DEVICE_PROFILES[d], LOCALES[l], TIMEZONES[z])>>
    /\ UNCHANGED <<regvars, runvars, vaultvars, servicevars, time_range, page_items, search_pc,
                   found_posts, filtered>>

\* SpecFingerprint: the fingerprints a browser controller draws, one for each
\* context it creates.

InitFingerprint ==
    /\ now = 1
    /\ accounts = <<>>
    /\ accounts_file = <<>>
    /\ last_call = NoCall
    /\ RunIdle
    /\ VaultNew
    /\ ServiceIdle
    /\ MonitorIdle

NextFingerprint == generate_fingerprint

SpecFingerprint == InitFingerprint /\ [][NextFingerprint]_vars

\* ------------------------------------------------------------------- claims

IsSelection(call) == call.op \in {"get_next_account", "get_account_for_search"}

\* C1: neither selection strategy ever returns an account whose status is
\* BANNED or LIMITED, whatever the registry and the clock.
C1_StatusExclusion ==
    (IsSelection(last_call) /\ last_call.ret # None)
        => Get(accounts, last_call.ret).status \notin {BANNED, LIMITED}

\* C2: an account with 3 or more consecutive failures is returned by no
\* selection, after any sequence of registry calls.
C2_FailedAccountNotSelected ==
    (IsSelection(last_call) /\ last_call.ret # None)
        => Get(accounts, last_call.ret).consecutive_failures < 3

\* C3: in the rotation scenario get_account_for_search returns the account
\* used 5 times; once three failures are recorded on that account, it returns
\* the account used 12 times.
C3_RotationScenario ==
    last_call.op = "get_account_for_search" =>
        /\ Get(accounts, "acc_001").consecutive_failures = 0 => last_call.ret = "acc_001"
        /\ Get(accounts, "acc_001").consecutive_failures = 3 => last_call.ret = "acc_002"

\* two accounts that differ in consecutive_failures alone (and in what names
\* them: the id and the error text)
SameButFailures(a, b) ==
    /\ a.status = b.status
    /\ a.total_searches = b.total_searches
    /\ a.last_used_at = b.last_used_at

\* C4: of two accounts that are identical except for consecutive_failures, the
\* one with strictly more failures never has the lower score.
C4_ScoreMonotoneInFailures ==
    \A i, j \in 1..Len(accounts) :
        (/\ SameButFailures(accounts[i], accounts[j])
         /\ accounts[i].consecutive_failures > accounts[j].consecutive_failures)
            => score(accounts[i], now) >= score(accounts[j], now)

\* two scored accounts that differ in failures alone, and the scored selection
\* has returned the one with fewer
C4_Witness ==
    /\ Len(accounts) = 2
    /\ SameButFailures(accounts[1], accounts[2])
    /\ accounts[1].consecutive_failures = 1
    /\ accounts[2].consecutive_failures = 0
    /\ accounts[1].status = UNKNOWN
    /\ last_call.op = "get_account_for_search"
    /\ last_call.ret = accounts[2].account_id

\* used less than `cooldown` ago
C5_Cooling(acc, cooldown) ==
    acc.last_used_at # 0 /\ now - acc.last_used_at < cooldown

\* C5: get_next_account(respect_cooldown=True) never returns an account that
\* is inside its cooldown while some account exists that is neither
\* BANNED/LIMITED nor inside its cooldown.
C5_CooldownExclusion ==
    (/\ last_call.op = "get_next_account"
     /\ last_call.respect_cooldown
     /\ last_call.ret # None
     /\ C5_Cooling(Get(accounts, last_call.ret), last_call.cooldown))
        => \A i \in 1..Len(accounts) :
                accounts[i].status \notin {BANNED, LIMITED}
                    => C5_Cooling(accounts[i], last_call.cooldown)

\* cooldown of one hour, an ACTIVE account used half an hour ago and fewer
\* times than the other, which is out of its cooldown: the other is returned
C5_Witness ==
    /\ last_call.op = "get_next_account"
    /\ last_call.respect_cooldown
    /\ last_call.cooldown = TicksPerHour
    /\ Len(accounts) = 2
    /\ accounts[1].status = ACTIVE
    /\ accounts[1].last_used_at # 0
    /\ 2 * (now - accounts[1].last_used_at) = TicksPerHour
    /\ accounts[2].status = UNKNOWN
    /\ ~C5_Cooling(accounts[2], TicksPerHour)
    /\ last_call.ret = accounts[2].account_id

\* what the rotation rules call an account that may be selected
Eligible(acc) ==
    acc.status \notin {BANNED, LIMITED} /\ acc.consecutive_failures < FAILURE_LIMIT

\* C6: in a run, the account selected for a keyword is inside its one-hour
\* cooldown only when every eligible account is inside its cooldown.
C6_RunRespectsCooldown ==
    [][(/\ pc = "select"
        /\ account' # None
        /\ C5_Cooling(Get(accounts, account'), DefaultCooldown))
       => \A i \in 1..Len(accounts) :
            Eligible(accounts[i]) => C5_Cooling(accounts[i], DefaultCooldown)
    ]_vars

\* C7: update_account_status as the record of an outcome.  ACTIVE: status
\* ACTIVE and consecutive_failures 0.  SUSPICIOUS: consecutive_failures one
\* more, status SUSPICIOUS, last_error the error given.  Either way the uses,
\* last_used_at and every other account stay as they were, and an id the
\* registry does not have changes nothing.
C7_RecordOutcome ==
    [][last_call'.op = "update_account_status" =>
        LET id == last_call'.id
            status == last_call'.status
        IN  IF ~Has(accounts, id) THEN accounts' = accounts /\ accounts_file' = accounts_file
            ELSE /\ Len(accounts') = Len(accounts)
                 /\ accounts_file' = accounts'
                 /\ \A i \in 1..Len(accounts) :
                        accounts[i].account_id # id => accounts'[i] = accounts[i]
                 /\ LET old == Get(accounts, id)
                        new == Get(accounts', id)
                    IN  /\ new.total_searches = old.total_searches
                        /\ new.last_used_at = old.last_used_at
                        /\ status = ACTIVE =>
                            /\ new.status = ACTIVE
                            /\ new.consecutive_failures = 0
                        /\ status = SUSPICIOUS =>
                            /\ new.status = SUSPICIOUS
                            /\ new.consecutive_failures = old.consecutive_failures + 1
                            /\ new.last_error = last_call'.error
    ]_vars

\* a second failure has just been recorded on an account with the error given,
\* next to an account that has been used
C7_Witness ==
    /\ last_call.op = "update_account_status"
    /\ last_call.status = SUSPICIOUS
    /\ last_call.error = LOGIN_TIMEOUT
    /\ last_call.id = "acc_001"
    /\ Len(accounts) = 2
    /\ accounts[1].consecutive_failures = 2
    /\ accounts[1].last_error = LOGIN_TIMEOUT
    /\ accounts[1].total_searches = 1
    /\ accounts[2].total_searches = 1
    /\ accounts[2].status = ACTIVE

\* C8: no step of a run changes the status of an account that is LIMITED or
\* BANNED.
C8_TerminalStatusKept ==
    [][\A i \in 1..Len(accounts) :
        accounts[i].status \in {LIMITED, BANNED}
            => /\ Has(accounts', accounts[i].account_id)
               /\ Get(accounts', accounts[i].account_id).status = accounts[i].status
    ]_vars

\* C9: a run that starts with no eligible account and meets no fault of the
\* browser or the disk skips every keyword, processes none, and ends having
\* saved exactly one document with no posts and no comments.
C9_NoEligibleAccountRun ==
    (/\ pc \notin {"idle", "except", "error"}
     /\ \A i \in 1..Len(accounts_at_start) : ~Eligible(accounts_at_start[i]))
    => /\ pc \in {"select", "next_keyword", "save", "done"}
       /\ \A k \in 1..Len(kw_log) : kw_log[k].outcome = "skipped"
       /\ stats.keywords_processed = 0
       /\ pc = "done" =>
            /\ Len(kw_log) = NumKeywords
            /\ result_files = <<[posts |-> <<>>, comments |-> <<>>, stats |-> NoStats]>>

\* C10: when the login of the selected account fails, the account is left
\* SUSPICIOUS with a failure counted, nothing else of the run is touched, the
\* run goes on with the next keyword (or to saving after the last one), and a
\* run that ends normally has gone through every keyword and saved one
\* document.
C10_LoginFailureContinues ==
    [][/\ (pc = "ensure_logged_in" /\ pc' = "login_failed")
            => Get(accounts', account).status = SUSPICIOUS
       /\ pc = "login_failed"
            => /\ Get(accounts', account).status = SUSPICIOUS
               /\ Get(accounts', account).consecutive_failures
                    = Get(accounts, account).consecutive_failures + 1
               /\ accounts_file' = accounts'
               /\ pc' = "next_keyword"
               /\ UNCHANGED <<keyword_index, all_posts, all_comments, stats, result_files>>
       /\ (/\ pc = "next_keyword"
           /\ pc' # pc
           /\ kw_log[Len(kw_log)].outcome = "login_failed")
            => IF keyword_index < NumKeywords
               THEN pc' = "select" /\ keyword_index' = keyword_index + 1
               ELSE pc' = "save"
       /\ pc' = "done"
            => /\ Len(kw_log') = NumKeywords
               /\ Len(result_files') = 1
               /\ result_files'[1].stats.keywords_processed
                    = Cardinality({k \in 1..NumKeywords : kw_log'[k].outcome = "processed"})
    ]_vars

\* a finished run in which the login failed for the first keyword, the same
\* account was then logged in and searched for a later one, and the posts
\* found were saved
C10_Witness ==
    /\ pc = "done"
    /\ kw_log[1].outcome = "login_failed"
    /\ \E k \in 2..NumKeywords :
        /\ kw_log[k].outcome = "processed"
        /\ kw_log[k].account = kw_log[1].account
    /\ Len(result_files) = 1
    /\ result_files[1].posts # <<>>
    /\ Get(accounts, kw_log[1].account).status = ACTIVE

\* C11: an error met while a keyword is handled in the rotation loop (the
\* secret of the account cannot be decrypted, no context or page, a failed
\* login) is caught there: no step of a keyword's iteration takes the run to
\* its exception handler, from which the error is raised again.
C11_KeywordErrorsCaught ==
    [][(pc \in {"select", "create_context", "ensure_logged_in", "search",
                 "login_failed", "next_keyword"})
            => pc' \notin {"except", "error"}
    ]_vars

\* the statuses a run ends in
Terminal == {"completed", "error", "stopped"}

\* C12: once the status is COMPLETED, ERROR or STOPPED, only an accepted
\* start_monitoring takes it to another status that is not one of these: no
\* step of a worker thread puts it back to INITIALIZING, SEARCHING or SAVING.
C12_TerminalStatusStays ==
    [][(service_status \in Terminal /\ service_status' \notin Terminal)
        => (gui_pc = "idle" /\ gui_pc' = "start_reset_flag")
    ]_vars

\* C13: when the calling thread is idle, every worker has finished and the
\* status is COMPLETED, ERROR or STOPPED, the result of the service is there
\* and holds the posts and comments that the last run had collected.
C13_ResultHoldsCollected ==
    (/\ gui_pc = "idle"
     /\ workers # <<>>
     /\ \A w \in 1..Len(workers) : workers[w].pc = "finished"
     /\ service_status \in Terminal)
    => /\ results # <<>>
       /\ results[1].posts = workers[Len(workers)].all_posts
       /\ results[1].comments = workers[Len(workers)].all_comments

\* C14: a run that has seen the stop flag starts no search of a further
\* keyword, and when it has returned, a document with the posts and comments
\* it had collected is written, be they none.
C14_CancelledRunFlushes ==
    \A w \in 1..Len(workers) :
        workers[w].observed_stop
        => /\ workers[w].pc \notin {"set_searching", "search"}
           /\ workers[w].pc = "returned" =>
                \E d \in 1..Len(result_files) : result_files[d] = WorkerResults(w)

\* C15: at most one worker thread is executing at any time.
C15_OneWorkerAtATime ==
    Cardinality({w \in 1..Len(workers) : workers[w].pc # "finished"}) <= 1

\* C16: add_account while the vault is not unlocked raises, and leaves the
\* accounts in memory and the store as they were.
C16_AddNeedsUnlockedVault ==
    [][(last_call'.op = "add_account" /\ ~master_password_set)
        => /\ last_call'.raised
           /\ accounts' = accounts
           /\ accounts_file' = accounts_file
    ]_vars

\* add_account has raised in a program that was started on a store with an
\* account, and that has a cipher but did not unlock the vault
C16_Witness ==
    /\ last_call.op = "add_account"
    /\ last_call.raised
    /\ ~master_password_set
    /\ cipher # Unset
    /\ accounts = <<>>
    /\ Len(accounts_file) = 1

\* the store holds a password that the key of `password` does not decrypt
EncryptedUnderAnother(password) ==
    \E i \in 1..Len(accounts_file) :
        decrypt(derive_key(salt_file, password), accounts_file[i].password_encrypted)
            = ValueError

\* C17: setup_master_password on an existing salt, in a locked vault whose
\* store holds an account encrypted under another master password, returns ""
\* and leaves the vault locked.
C17_WrongMasterPasswordRejected ==
    [][(/\ last_call'.op = "setup_master_password"
        /\ ~last_call'.arg.new_password
        /\ salt_file # Unset
        /\ ~master_password_set
        /\ EncryptedUnderAnother(last_call'.arg.password))
        => /\ ~master_password_set'
           /\ last_call'.ret = <<"str", "">>
    ]_vars

\* the strings that are encrypted
C18_Strings == Passwords \cup MasterPasswords \cup {<<"str", "">>}

\* C18: under one salt and master password decrypt(encrypt(s)) = s for every
\* string s, and decrypt of that ciphertext under another master password
\* raises; so for the passwords add_account encrypts and get_password
\* decrypts.
C18_EncryptionRoundTrip ==
    /\ cipher # Unset =>
        \A s \in C18_Strings :
            /\ decrypt(cipher, encrypt(cipher, s)) = s
            /\ \A m \in MasterPasswords :
                derive_key(salt_file, m) # cipher
                    => decrypt(derive_key(salt_file, m), encrypt(cipher, s)) = ValueError
    /\ (last_call.op = "add_account" /\ ~last_call.raised)
        => decrypt(cipher, Get(accounts, last_call.id).password_encrypted) = last_call.arg
    /\ (last_call.op = "get_password" /\ ~last_call.raised)
        => Get(accounts, last_call.id).password_encrypted = encrypt(cipher, last_call.ret)
    /\ (last_call.op = "get_password" /\ last_call.raised
            /\ master_password_set /\ Has(accounts, last_call.id))
        => \A s \in C18_Strings :
            Get(accounts, last_call.id).password_encrypted # encrypt(cipher, s)

\* get_password has raised for an account added under the former master
\* password, next to an account whose password the present one decrypts
C18_Witness ==
    /\ last_call.op = "get_password"
    /\ last_call.raised
    /\ master_password_set
    /\ Len(accounts) = 2
    /\ last_call.id = accounts[1].account_id
    /\ decrypt(cipher, accounts[2].password_encrypted) \in Passwords

\* C19: no record of the store has an attribute beside the fields, and its
\* password_encrypted is a ciphertext, not one of the passwords.
C19_NoPlaintextInStore ==
    \A i \in 1..Len(accounts_file) :
        /\ DOMAIN accounts_file[i] \subseteq Fields
        /\ "password_encrypted" \in DOMAIN accounts_file[i] =>
            /\ accounts_file[i].password_encrypted \notin Passwords
            /\ \E s \in Passwords, m \in MasterPasswords :
                accounts_file[i].password_encrypted = encrypt(derive_key(Salt, m), s)

\* get_account has put the password on the account in memory, and a later
\* record_usage has saved the store
C19_Witness ==
    /\ last_call.op = "record_usage"
    /\ Has(accounts, last_call.id)
    /\ "password" \in DOMAIN Get(accounts, last_call.id)
    /\ Get(accounts, last_call.id).password \in Passwords
    /\ Has(accounts_file, last_call.id)
    /\ Get(accounts_file, last_call.id).total_searches = 1

\* C20: after remove_account(id) has returned True, id is neither in the
\* registry nor in the store and has no saved login state; for an id the
\* registry does not have it returns False and changes nothing.
C20_RemoveAccount ==
    [][last_call'.op = "remove_account" =>
        IF last_call'.ret
        THEN /\ Has(accounts, last_call'.id)
             /\ ~Has(accounts', last_call'.id)
             /\ ~Has(accounts_file', last_call'.id)
             /\ last_call'.id \notin state_files'
             /\ \A id \in AccountIds \ {last_call'.id} :
                    /\ Has(accounts', id) <=> Has(accounts, id)
                    /\ id \in state_files' <=> id \in state_files
        ELSE /\ ~Has(accounts, last_call'.id)
             /\ UNCHANGED <<accounts, accounts_file, state_files>>
    ]_vars

\* the first of two accounts has been removed; the other one and its saved
\* login state are still there
C20_Witness ==
    /\ last_call.op = "remove_account"
    /\ last_call.ret = TRUE
    /\ last_call.id = "acc_001"
    /\ Ids(accounts) = {"acc_002"}
    /\ Ids(accounts_file) = {"acc_002"}
    /\ state_files = {"acc_002"}

\* the canonical timestamp of a post lies in the window of the monitor
InWindow(post) ==
    /\ timestamp(time_range[1]) <= post.timestamp_unix
    /\ post.timestamp_unix <= timestamp(time_range[2])

\* C21: every call of the window filter returns, in their order, exactly the
\* posts of its argument whose canonical timestamp lies between the start and
\* the end of the window or is 0.
C21_WindowFilter ==
    \A k \in 1..Len(filtered) :
        filtered[k].ret =
            SelectSeq(filtered[k].posts, LAMBDA post : InWindow(post) \/ post.timestamp_unix = 0)

\* the filter was given a post before the window, one without a time and one
\* in the window: it has dropped the first and kept the two others in order
C21_Witness ==
    /\ Len(filtered) = 1
    /\ Len(filtered[1].posts) = 3
    /\ filtered[1].posts[1].timestamp_unix # 0 /\ ~InWindow(filtered[1].posts[1])
    /\ filtered[1].posts[2].timestamp_unix = 0
    /\ InWindow(filtered[1].posts[3])
    /\ filtered[1].ret = <<filtered[1].posts[2], filtered[1].posts[3]>>

\* C22: the filter applied to the list it returned, under the same window and
\* at the same clock value, returns that list.
C22_FilterIdempotent ==
    (Len(filtered) = 2 /\ filtered[2].at = filtered[1].at) =>
        /\ filtered[2].posts = filtered[1].ret
        /\ filtered[2].ret = filtered[1].ret

\* the first call dropped a post and kept two different ones, and the second
\* call was made at the same clock value
C22_Witness ==
    /\ Len(filtered) = 2
    /\ filtered[2].at = filtered[1].at
    /\ Len(filtered[1].posts) = 3
    /\ Len(filtered[1].ret) = 2
    /\ filtered[1].ret[1].timestamp # filtered[1].ret[2].timestamp
    /\ filtered[2].ret = filtered[1].ret

\* the accounts of the registry, by position, that are neither BANNED nor
\* LIMITED and were never used or last used at least h ago
C23_Available(h) ==
    {i \in 1..Len(accounts) :
        /\ accounts[i].status # BANNED /\ accounts[i].status # LIMITED
        /\ accounts[i].last_used_at = 0 \/ now - accounts[i].last_used_at >= h}

\* those that are neither BANNED nor LIMITED and were used less than h ago
C23_CoolingNow(h) ==
    {i \in 1..Len(accounts) :
        /\ accounts[i].status # BANNED /\ accounts[i].status # LIMITED
        /\ accounts[i].last_used_at # 0 /\ now - accounts[i].last_used_at < h}

\* account i comes before account j in the order (status != ACTIVE, total
\* uses, last_used_at), and by position in the registry when these are equal
C23_Before(i, j) ==
    LET a == accounts[i]
        b == accounts[j]
    IN  \/ a.status = ACTIVE /\ b.status # ACTIVE
        \/ /\ (a.status = ACTIVE) = (b.status = ACTIVE)
           /\ \/ a.total_searches < b.total_searches
              \/ /\ a.total_searches = b.total_searches
                 /\ \/ a.last_used_at < b.last_used_at
                    \/ a.last_used_at = b.last_used_at /\ i <= j

\* the reference: the id it names, or None
C23_Reference(h) ==
    IF C23_Available(h) # {}
    THEN accounts[CHOOSE i \in C23_Available(h) :
                    \A j \in C23_Available(h) : C23_Before(i, j)].account_id
    ELSE IF C23_CoolingNow(h) # {}
    THEN accounts[CHOOSE i \in C23_CoolingNow(h) :
                    \A j \in C23_CoolingNow(h) :
                        \/ accounts[i].last_used_at < accounts[j].last_used_at
                        \/ accounts[i].last_used_at = accounts[j].last_used_at /\ i <= j].account_id
    ELSE None

C24_Number(id) == CHOOSE n \in 1..3 : account_id(n) = id

\* C24: get_account_for_search returns none when there is no candidate, and
\* else a candidate of minimum score which, among the candidates of that
\* score, has the smallest id.
C24_MinimumScoreSmallestId ==
    last_call.op = "get_account_for_search" =>
        LET cands == {i \in 1..Len(accounts) : IsCandidate(accounts[i])}
        IN  IF cands = {} THEN last_call.ret = None
            ELSE \E i \in cands :
                    /\ last_call.ret = accounts[i].account_id
                    /\ \A j \in cands :
                        \/ score(accounts[i], now) < score(accounts[j], now)
                        \/ /\ score(accounts[i], now) = score(accounts[j], now)
                           /\ C24_Number(accounts[i].account_id) <= C24_Number(accounts[j].account_id)

C26_SelectionPerKeyword ==
    [][/\ (pc' = "select" /\ pc # "select") =>
            IF pc = "idle" THEN keyword_index' = 1
            ELSE pc = "next_keyword" /\ keyword_index' = keyword_index + 1
       /\ keyword_index' # keyword_index => pc' = "select"
       /\ account' # account => pc = "select"
       /\ (pc' = "create_context" /\ pc # "create_context") => pc = "select" /\ account' # None
       /\ (pc' = "ensure_logged_in" /\ pc # "ensure_logged_in") =>
            pc = "create_context" /\ current_account_id' = account
       /\ (pc' \in {"search", "login_failed"} /\ pc # pc') => pc = "ensure_logged_in"
       /\ pc \in {"ensure_logged_in", "search", "login_failed"} =>
            /\ Len(accounts') = Len(accounts)
            /\ \A i \in 1..Len(accounts) :
                accounts'[i] # accounts[i] => accounts[i].account_id = account
       /\ kw_log' # kw_log =>
            /\ kw_log' = Append(kw_log, kw_log'[Len(kw_log')])
            /\ kw_log'[Len(kw_log')].keyword = keyword_index
            /\ kw_log'[Len(kw_log')].account = account'
            /\ Len(kw_log') = keyword_index
    ]_vars

\* the three keywords have been handled in order; the first went to the second
\* account of the registry, whose login failed, the second to the first
\* account, which logged in and searched
C26_Witness ==
    /\ Len(kw_log) = NumKeywords
    /\ \A k \in 1..NumKeywords : kw_log[k].keyword = k
    /\ Len(accounts) = 2
    /\ kw_log[1].account = accounts[2].account_id
    /\ kw_log[1].outcome = "login_failed"
    /\ kw_log[2].account = accounts[1].account_id
    /\ kw_log[2].outcome = "processed"
    /\ kw_log[3].outcome = "processed"

\* the platform hint that goes with the system part of a user agent
C27_Platform(ua) ==
    IF ua.system[1] = "Macintosh" THEN "macOS"
    ELSE IF ua.system[1] = "X11" THEN "Linux"
    ELSE "Windows"

\* the user agent has a product of that name
C27_Has(ua, name) == \E i \in 1..Len(ua.products) : ua.products[i][1] = name

\* C27: in every profile drawn, the headers agree with the user agent: the
\* platform hint names the user agent's operating system, a Firefox user agent
\* comes without client hints, and the brand list names Microsoft Edge exactly
\* for an Edge user agent.
C27_ProfileSelfConsistent ==
    \A i \in 1..Len(profile) :
        LET ua == profile[i].user_agent
            headers == profile[i].headers
        IN  /\ "sec-ch-ua-platform" \in DOMAIN headers =>
                headers["sec-ch-ua-platform"] = C27_Platform(ua)
            /\ C27_Has(ua, "Firefox") <=> "sec-ch-ua" \notin DOMAIN headers
            /\ "sec-ch-ua" \in DOMAIN headers =>
                (C27_Has(ua, "Edg") <=>
                    \E b \in 1..Len(headers["sec-ch-ua"]) : headers["sec-ch-ua"][b][1] = "Microsoft Edge")

\* C28: an add_account that returns an id returns one that no account of the
\* registry had, and the registry has one account more after it.
C28_AddNeverOverwrites ==
    [][(last_call'.op = "add_account" /\ ~last_call'.raised) =>
        /\ ~Has(accounts, last_call'.ret)
        /\ Len(accounts') = Len(accounts) + 1
        /\ Len(accounts_file') = Len(accounts_file) + 1
    ]_vars

\* the keywords of the run so far that ended with that outcome on account id
C29_Keywords(id, outcome) ==
    {k \in 1..Len(kw_log) : kw_log[k].account = id /\ kw_log[k].outcome = outcome}

\* C29: between two keyword iterations, every account's total uses are those
\* it had when the run started plus one for each keyword processed with it;
\* and an account with which no keyword was processed has the consecutive
\* failures it started with plus one for each keyword whose login failed.
C29_OncePerKeyword ==
    pc \in {"select", "next_keyword", "save", "done"} =>
        \A i \in 1..Len(accounts) :
            LET id == accounts[i].account_id
            IN  /\ accounts[i].total_searches =
                    accounts_at_start[i].total_searches + Cardinality(C29_Keywords(id, "processed"))
                /\ C29_Keywords(id, "processed") = {} =>
                    accounts[i].consecutive_failures =
                        accounts_at_start[i].consecutive_failures
                        + Cardinality(C29_Keywords(id, "login_failed"))

\* C30: after an add_account that returned an id, every record that the store
\* held before the call is in the store as it was.
C30_AddKeepsStoredRecords ==
    [][(last_call'.op = "add_account" /\ ~last_call'.raised) =>
        \A i \in 1..Len(accounts_file) :
            \E j \in 1..Len(accounts_file') : accounts_file'[j] = accounts_file[i]
    ]_vars

====
